---- MODULE Spec2Model ----
(***************************************************************************)
(* blocrun (src/cli.js): a command-group process supervisor.               *)
(*                                                                         *)
(* src/cli.js holds two revisions of the script, one after the other:      *)
(* revision 1 (lines 1-241, the handleXxx functions) and revision 2        *)
(* (lines 243-535, one if/else chain).  A behaviour of the model runs one  *)
(* of them throughout (variable rev).  One invocation of the command line  *)
(* tool is one action: the script is synchronous from its first line to    *)
(* its exit.                                                               *)
(*                                                                         *)
(* Modelling conventions                                                   *)
(*  - a block name is the sequence of its characters, so that the          *)
(*    unanchored RegExp of run (a suffix match on headers) is computed;    *)
(*  - the Blocfile is the sequence of its blocks, a block is its header    *)
(*    name and the sequence of its trimmed non-empty lines, a line is its  *)
(*    first character and the rest ("#" is any character not in $%@);      *)
(*  - the .blocks file is [exists, ok, data]: ok says JSON.parse accepts   *)
(*    it, data is the parsed object as the sequence of its entries in key  *)
(*    (insertion) order;                                                   *)
(*  - PIDs are handed out by the operating system from a counter; block    *)
(*    names are ordinary identifiers (no member of Object.prototype).      *)
(***************************************************************************)
EXTENDS Integers, Sequences, FiniteSets, TLC

VARIABLES rev,        \* which revision of the script is installed: 1 or 2
          Blocfile,   \* the block-definition file: [exists, blocks]
          blocksFile, \* the registry file .blocks: [exists, ok, data]
          alive,      \* the PIDs of the live processes
          nextPid,    \* the next PID the operating system hands out
          last,       \* the last invocation: [cmd, arg]
          pre,        \* blocksFile as the last invocation found it
          out,        \* what the last invocation printed, in order
          exitCode,   \* the exit code of the last invocation
          launched,   \* the spawn calls of the last invocation, in order
          signals,    \* the signals the last invocation sent, in order
          procs,      \* the tracked children launched by run and not since
                      \* targeted by a kill: [block, pid, run]
          cleanUsed,  \* clean has been invoked
          audit,      \* whether procs and cleanUsed are kept (they are read
                      \* by no operation of the tool)
          inv,        \* the invocations under way, when two overlap:
                      \* [pc, arg, blocks] for each
          overlapped  \* an invocation has started while another was under way

vars == <<rev, Blocfile, blocksFile, alive, nextPid, last, pre, out,
          exitCode, launched, signals, procs, cleanUsed, audit, inv,
          overlapped>>

\* ------------------------------------------------------------------ bounds
MaxPid == 4

\* ------------------------------------------------------------------- names
dev == <<"d", "e", "v">>
api == <<"a", "p", "i">>
build == <<"b", "u", "i", "l", "d">>
webdev == <<"w", "e", "b", "d", "e", "v">>
none == <<>>

Names == {dev, api, build, webdev}
ALL == <<"a", "l", "l">>
Args == Names \cup {ALL}

Line(s, c) == [sym |-> s, cmd |-> c]
Block(n, b) == [name |-> n, body |-> b]

\* The definition files the model is run with.
Blocfiles ==
  { <<Block(dev, <<Line("$", "echo hi"), Line("%", "sleep 100"), Line("@", "echo wrap")>>),
      Block(api, <<Line("%", "node server.js")>>)>>,
    <<Block(webdev, <<Line("%", "serve")>>),
      Block(dev, <<Line("@", "code ."), Line("#", "comment"), Line("%", "npm run dev")>>)>>,
    <<Block(build, <<Line("$", "npm run build")>>),
      Block(api, <<Line("%", "node a.js")>>),
      Block(api, <<Line("@", "node b.js")>>)>> }

\* ------------------------------------------------- the registry as an object
\* A parsed .blocks object: the sequence of its entries [name, pids] in key order.
Keys(b) == [i \in 1..Len(b) |-> b[i].name]
KeySet(b) == {b[i].name : i \in 1..Len(b)}
Has(b, n) == n \in KeySet(b)
IndexOf(b, n) == CHOOSE i \in 1..Len(b) : b[i].name = n
Get(b, n) == b[IndexOf(b, n)].pids
\* A write that forgets the other keys.
PutAlone(b, n, p) == <<[name |-> n, pids |-> p]>>
\* blocks[n] = pids
Put(b, n, p) ==
  IF Has(b, n) THEN [b EXCEPT ![IndexOf(b, n)].pids = p]
  ELSE Append(b, [name |-> n, pids |-> p])
\* delete blocks[n]
Delete(b, n) ==
  IF Has(b, n)
  THEN SubSeq(b, 1, IndexOf(b, n) - 1) \o SubSeq(b, IndexOf(b, n) + 1, Len(b))
  ELSE b

NoFile == [exists |-> FALSE, ok |-> TRUE, data |-> <<>>]
FileOf(b) == [exists |-> TRUE, ok |-> TRUE, data |-> b]

\* fs.existsSync(BLOCK_FILE)
fileExists(f) == f.exists

\* An output line: its kind, the block and the PIDs or names it mentions.
Msg(k, n, p) == [k |-> k, n |-> n, p |-> p]

\* --------------------------------------------------------------- registry IO
\* JSON.parse(readFile(BLOCK_FILE)) returns (does not throw)
canParse(f) == f.exists /\ f.ok

\* Revision 1 readBlocks: any failure of the read or the parse gives {}.
\* Revision 2 readBlocks has no try/catch: its callers test canParse first
\* and the failure is an uncaught exception (Crash).
readBlocks(f) == IF canParse(f) THEN f.data ELSE <<>>

\* writeBlocks(data): the file holds JSON.stringify(data).
writeBlocks(data) == FileOf(data)

\* if (!fileExists(BLOCK_FILE)) writeBlocks({})
ensureBlocksFile(f) == IF fileExists(f) THEN f ELSE writeBlocks(<<>>)

\* Object.keys(blocks).length ? writeBlocks(blocks) : fs.unlinkSync(BLOCK_FILE)
saveOrUnlink(blocks) == IF Len(blocks) > 0 THEN writeBlocks(blocks) ELSE NoFile

\* -------------------------------------------------------------------- parser
\* s is a suffix of t
IsSuffix(s, t) ==
  Len(s) <= Len(t) /\ SubSeq(t, Len(t) - Len(s) + 1, Len(t)) = s

\* fileContent.match(new RegExp(`${blkName}\\s*{([\\s\\S]*?)}`)): the RegExp is
\* not anchored, so the first place of the text where blkName is followed by
\* "{" is the first header that ends with blkName.  0 when nothing matches.
matchBlock(defs, blkName) ==
  IF \E i \in 1..Len(defs) : IsSuffix(blkName, defs[i].name)
  THEN CHOOSE i \in 1..Len(defs) :
         /\ IsSuffix(blkName, defs[i].name)
         /\ \A k \in 1..(i - 1) : ~IsSuffix(blkName, defs[k].name)
  ELSE 0

\* The headers last first.
allHeadersReversed(defs) == [i \in 1..Len(defs) |-> defs[Len(defs) + 1 - i].name]

\* [...fileContent.matchAll(/^(\w+)\s*{[\s\S]*?^}/gm)].map(m => m[1])
allHeaders(defs) == [i \in 1..Len(defs) |-> defs[i].name]

\* block === "all" ? <every header> : [block]
blockNames(defs, arg) == IF arg = ALL THEN allHeaders(defs) ELSE <<arg>>

\* .filter(l => l && /[$%@]/.test(l[0]))
recognized(l) == l.sym \in {"$", "%", "@"}
linesOf(body) == SelectSeq(body, recognized)

\* symbol -> type
typeOf(sym) ==
  IF sym = "$" THEN "exit"
  ELSE IF sym = "%" THEN "sustain"
  ELSE IF sym = "@" THEN (IF rev = 1 THEN "cmd" ELSE "cmdwrap")
  ELSE "unknown"

isWrap(type) == type \in {"cmd", "cmdwrap"}

\* the stdio option of spawn
stdioOf(type) ==
  IF rev = 1 THEN "ignore"
  ELSE IF type = "exit" \/ type = "cmdwrap" THEN "inherit" ELSE "ignore"

\* ----------------------------------------------------------------------- run
\* A guard that asks the process table: a block is running while one of its
\* recorded PIDs is alive.
alreadyRunningIfAlive(blocks, blkName) ==
  Has(blocks, blkName)
    /\ \E j \in 1..Len(Get(blocks, blkName)) : Get(blocks, blkName)[j] \in alive

\* if (blocks[blkName]): the duplicate-run guard
alreadyRunning(blocks, blkName) == Has(blocks, blkName)

\* Every child with a pid is pushed, the one-off ones too.
isTrackedAnyType(type, pid) == pid # 0

\* the PID is pushed: proc.pid && type !== "exit"
isTracked(type, pid) == pid # 0 /\ type # "exit"

\* One iteration of `for (const line of lines)`, in the i-th iteration of the
\* loop over the block names.  spawned says whether spawn gave the child a
\* pid; m is the state of the invocation.
runLine(m, blkName, i, line, spawned) ==
  LET type == typeOf(line.sym)
      pid == IF spawned THEN m.next ELSE 0
      ev == [block |-> blkName, iter |-> i, type |-> type, cmd |-> line.cmd,
             wrap |-> isWrap(type), stdio |-> stdioOf(type), pid |-> pid]
  IN IF type = "unknown" THEN m
     ELSE [m EXCEPT
            !.launched = Append(@, ev),
            !.next = IF spawned THEN @ + 1 ELSE @,
            !.born = IF spawned THEN @ \cup {pid} ELSE @,
            !.out = IF rev = 2 /\ pid = 0
                    THEN Append(@, Msg("FailedToStart", blkName, <<>>)) ELSE @,
            !.pids = IF isTracked(type, pid) THEN Append(@, pid) ELSE @]

RECURSIVE runLines(_, _, _, _, _, _)
runLines(m, blkName, lines, j, i, okSet) ==
  IF j > Len(lines) THEN m
  ELSE runLines(runLine(m, blkName, i, lines[j], <<i, j>> \in okSet),
                blkName, lines, j + 1, i, okSet)

\* started = [blkName] in place of started.push(blkName)
recordBlockLastOnly(m, blkName) ==
  IF Len(m.pids) > 0
  THEN [m EXCEPT !.blocks = Put(@, blkName, m.pids), !.started = <<blkName>>]
  ELSE m

\* if (pids.length) { blocks[blkName] = pids; started.push(blkName) }
recordBlock(m, blkName) ==
  IF Len(m.pids) > 0
  THEN [m EXCEPT !.blocks = Put(@, blkName, m.pids),
                 !.started = Append(@, blkName)]
  ELSE m

\* One iteration of the loop over blockNames; i is its index.
runBlock(m, defs, blkName, i, okSet) ==
  IF alreadyRunning(m.blocks, blkName)
  THEN [m EXCEPT !.out = Append(@, Msg("AlreadyRunning", blkName,
                    IF rev = 2 THEN Get(m.blocks, blkName) ELSE <<>>))]
  ELSE IF matchBlock(defs, blkName) = 0
  THEN [m EXCEPT !.out = Append(@, Msg("NoBlockFound", blkName, <<>>))]
  ELSE recordBlock(
         runLines([m EXCEPT !.pids = <<>>], blkName,
                  linesOf(defs[matchBlock(defs, blkName)].body), 1, i, okSet),
         blkName)

RECURSIVE runBlocks(_, _, _, _, _)
runBlocks(m, defs, names, i, okSet) ==
  IF i > Len(names) THEN m
  ELSE runBlocks(runBlock(m, defs, names[i], i, okSet), defs, names, i + 1, okSet)

\* The spawn calls an invocation may come to: <<i, j>> is line j of the body
\* matched for the i-th block name.
spawnPlaces(defs, names) ==
  {p \in (1..Len(names)) \X (1..3) :
     /\ matchBlock(defs, names[p[1]]) # 0
     /\ p[2] <= Len(linesOf(defs[matchBlock(defs, names[p[1]])].body))}

\* The result of an invocation: what it leaves and what it showed.
Result(f, a, nx, o, x, l, s) ==
  [file |-> f, alive |-> a, next |-> nx, out |-> o, exit |-> x,
   launched |-> l, signals |-> s]

\* An uncaught exception: a stack trace and exit code 1.
Crash(f) == Result(f, alive, nextPid, <<Msg("Crash", none, <<>>)>>, 1, <<>>, <<>>)

\* Said and done: nothing else happens.
Say(f, k, x) == Result(f, alive, nextPid, <<Msg(k, none, <<>>)>>, x, <<>>, <<>>)

\* The loop of run and what follows it: blocks is the object readBlocks gave
\* the invocation, f the registry file when the loop is done.
runFrom(blocks, f, arg, okSet) ==
  LET names == blockNames(Blocfile.blocks, arg)
      m0 == [blocks |-> blocks, started |-> <<>>, pids |-> <<>>,
             launched |-> <<>>, out |-> <<>>, next |-> nextPid, born |-> {}]
      m == runBlocks(m0, Blocfile.blocks, names, 1, okSet)
      tail == IF arg # ALL THEN <<>>
              ELSE IF rev = 1 \/ Len(m.started) > 0
              THEN <<Msg("Started", none, m.started)>>
              ELSE <<Msg("NoBlocksStarted", none, <<>>)>>
  IN Result(IF Len(m.started) > 0 THEN writeBlocks(m.blocks) ELSE f,
            alive \cup m.born, m.next, m.out \o tail, 0, m.launched, <<>>)

\* An invocation of run alone: it reads the registry file f1 and nothing
\* touches the file before it is done.
runLoop(f1, arg, okSet) == runFrom(readBlocks(f1), f1, arg, okSet)

\* Revision 1, handleRun.
handleRun(arg, okSet) ==
  IF ~Blocfile.exists THEN Say(blocksFile, "BlocfileNotFound", 0)
  ELSE runLoop(ensureBlocksFile(blocksFile), arg, okSet)

\* Revision 2, command === "run".
runCommand(arg, okSet) ==
  LET f1 == ensureBlocksFile(blocksFile)
  IN IF ~canParse(f1) THEN Crash(f1)
     ELSE IF ~Blocfile.exists THEN Say(f1, "BlocfileNotFound", 1)
     ELSE runLoop(f1, arg, okSet)

\* ---------------------------------------------------------------------- kill
\* taskkill /PID pid /T /F, or process.kill(-pid, "SIGTERM"): it throws when
\* the process is gone, or when the system refuses (deny).
killThrows(pid, live, deny) == pid \notin live \/ pid \in deny

\* The block is deregistered only when every termination went through.
deregisterIfKilled(blocks, blkName, failed) ==
  IF failed THEN blocks ELSE Delete(blocks, blkName)

\* delete blocks[blkName], after the loop over the PIDs; failed says whether a
\* termination threw.
deregister(blocks, blkName, failed) == Delete(blocks, blkName)

\* The try/catch around the whole loop: after a termination that threw, the
\* remaining PIDs of the block are not attempted.
killPidUntilFailure(m, pid, deny) ==
  IF m.failed THEN m
  ELSE [m EXCEPT
         !.signals = Append(@, [pid |-> pid, sig |-> "SIGTERM",
                                ok |-> ~killThrows(pid, m.alive, deny)]),
         !.alive = IF killThrows(pid, m.alive, deny) THEN @ ELSE @ \ {pid},
         !.failed = killThrows(pid, m.alive, deny),
         !.out = IF killThrows(pid, m.alive, deny)
                 THEN Append(@, Msg("FailedToKill", none, <<pid>>)) ELSE @]

\* try { kill(pid) } catch (e) { console.error(...) }
killPid(m, pid, deny) ==
  LET threw == killThrows(pid, m.alive, deny)
  IN [m EXCEPT
       !.signals = Append(@, [pid |-> pid, sig |-> "SIGTERM", ok |-> ~threw]),
       !.alive = IF threw THEN @ ELSE @ \ {pid},
       !.failed = @ \/ threw,
       !.out = IF threw THEN Append(@, Msg("FailedToKill", none, <<pid>>)) ELSE @]

RECURSIVE killPids(_, _, _, _)
killPids(m, pids, j, deny) ==
  IF j > Len(pids) THEN m
  ELSE killPids(killPid(m, pids[j], deny), pids, j + 1, deny)

\* One iteration of the loop over the blocks to kill.
killBlock(m, blkName, deny) ==
  IF ~Has(m.blocks, blkName)
  THEN [m EXCEPT !.out = Append(@, Msg("NotFound", blkName, <<>>))]
  ELSE LET m1 == killPids([m EXCEPT !.failed = FALSE],
                          Get(m.blocks, blkName), 1, deny)
       IN [m1 EXCEPT !.blocks = deregister(@, blkName, m1.failed),
                     !.out = Append(@, Msg("Terminated", blkName, <<>>))]

RECURSIVE killBlocks(_, _, _, _)
killBlocks(m, names, i, deny) ==
  IF i > Len(names) THEN m
  ELSE killBlocks(killBlock(m, names[i], deny), names, i + 1, deny)

\* block === "all" ? Object.keys(blocks) : [block]
namesOf(blocks, arg) == IF arg = ALL THEN Keys(blocks) ELSE <<arg>>

\* The loop of kill and the final write or unlink.
killLoop(arg, deny) ==
  LET blocks == readBlocks(blocksFile)
      m0 == [blocks |-> blocks, out |-> <<>>, signals |-> <<>>,
             alive |-> alive, failed |-> FALSE]
      m == killBlocks(m0, namesOf(blocks, arg), 1, deny)
      tail == IF rev = 2 /\ Len(m.blocks) = 0
              THEN <<Msg("AllCleared", none, <<>>)>> ELSE <<>>
  IN Result(saveOrUnlink(m.blocks), m.alive, nextPid, m.out \o tail, 0,
            <<>>, m.signals)

\* Revision 1, handleKill.
handleKill(arg, deny) ==
  IF ~fileExists(blocksFile) THEN Say(blocksFile, "NoBlocksRunning", 0)
  ELSE killLoop(arg, deny)

\* Revision 2, command === "kill".
killCommand(arg, deny) ==
  IF ~fileExists(blocksFile) THEN Say(blocksFile, "NoBlocksRunning", 1)
  ELSE IF ~canParse(blocksFile) THEN Crash(blocksFile)
  ELSE IF Len(namesOf(readBlocks(blocksFile), arg)) = 0
  THEN Say(blocksFile, "NoBlocksRunning", 0)
  ELSE killLoop(arg, deny)

\* ---------------------------------------------------------------------- list
\* Object.entries(blocks).forEach(([name, pids]) => console.log(...))
listEntries(blocks) ==
  [i \in 1..Len(blocks) |-> Msg("Entry", blocks[i].name, blocks[i].pids)]

listing(blocks) == <<Msg("RunningBlocks", none, <<>>)>> \o listEntries(blocks)

\* Revision 1, handleList.
handleList ==
  IF ~fileExists(blocksFile) THEN Say(blocksFile, "NoBlocksRunning", 0)
  ELSE Result(blocksFile, alive, nextPid, listing(readBlocks(blocksFile)), 0,
              <<>>, <<>>)

\* Revision 2, command === "list".
listCommand ==
  IF ~fileExists(blocksFile) THEN Say(blocksFile, "NoBlocksRunning", 0)
  ELSE IF ~canParse(blocksFile) THEN Crash(blocksFile)
  ELSE IF Len(readBlocks(blocksFile)) = 0
  THEN Say(blocksFile, "NoBlocksRunning", 0)
  ELSE Result(blocksFile, alive, nextPid, listing(readBlocks(blocksFile)), 0,
              <<>>, <<>>)

\* -------------------------------------------------------------------- status
\* process.kill(pid, 0) returns
probe(pid) == pid \in alive

\* pids.filter(pid => probe(pid))
stillRunning(pids) == SelectSeq(pids, probe)

\* A test that takes one live process for a running block.
classifyAnyAlive(nRunning, nPids) ==
  IF nRunning > 0 THEN "Running" ELSE "NotRunning"

\* the three-way test on running.length
classify(nRunning, nPids) ==
  IF nRunning = nPids THEN "Running"
  ELSE IF nRunning > 0 THEN "PartiallyRunning"
  ELSE "NotRunning"

\* The test for a missing entry left out (const pids = blocks[blkName] || []).
statusMissingNever(blocks, blkName) == FALSE

\* const pids = blocks[blkName]; if (!pids) "not found"
statusMissing(blocks, blkName) == ~Has(blocks, blkName)

\* blocks[blkName] where a list is needed
pidsOf(blocks, blkName) == IF Has(blocks, blkName) THEN Get(blocks, blkName) ELSE <<>>

\* The lines one block adds to the output, and the probes it sends.
statusBlock(m, blkName) ==
  IF statusMissing(m.blocks, blkName)
  THEN [m EXCEPT !.out = Append(@, Msg("NotFound", blkName, <<>>))]
  ELSE LET pids == pidsOf(m.blocks, blkName)
           run == stillRunning(pids)
           verdict == classify(Len(run), Len(pids))
           shown == IF rev = 1 \/ verdict = "NotRunning" THEN <<>>
                    ELSE IF verdict = "Running" THEN pids ELSE run
       IN [m EXCEPT
            !.signals = @ \o [j \in 1..Len(pids) |->
                               [pid |-> pids[j], sig |-> "0", ok |-> probe(pids[j])]],
            !.out = Append(@, Msg(verdict, blkName, shown))]

RECURSIVE statusBlocks(_, _, _)
statusBlocks(m, names, i) ==
  IF i > Len(names) THEN m
  ELSE statusBlocks(statusBlock(m, names[i]), names, i + 1)

\* A status that tidies up: blocks found not running are dropped from the file.
statusLoopPruning(arg) ==
  LET blocks == readBlocks(blocksFile)
      m == statusBlocks([blocks |-> blocks, out |-> <<>>, signals |-> <<>>],
                        namesOf(blocks, arg), 1)
      dead == {m.out[j].n : j \in {k \in 1..Len(m.out) : m.out[k].k = "NotRunning"}}
  IN Result(saveOrUnlink(SelectSeq(blocks, LAMBDA e : e.name \notin dead)),
            alive, nextPid, m.out, 0, <<>>, m.signals)

\* The loop of status: nothing is written.
statusLoop(arg) ==
  LET blocks == readBlocks(blocksFile)
      m == statusBlocks([blocks |-> blocks, out |-> <<>>, signals |-> <<>>],
                        namesOf(blocks, arg), 1)
  IN Result(blocksFile, alive, nextPid, m.out, 0, <<>>, m.signals)

\* Revision 1, handleStatus.
handleStatus(arg) ==
  IF ~fileExists(blocksFile) THEN Say(blocksFile, "NoBlocksRunning", 0)
  ELSE statusLoop(arg)

\* Revision 2, command === "status".
statusCommand(arg) ==
  IF ~fileExists(blocksFile) THEN Say(blocksFile, "NoBlocksRunning", 0)
  ELSE IF ~canParse(blocksFile) THEN Crash(blocksFile)
  ELSE IF Len(namesOf(readBlocks(blocksFile), arg)) = 0
  THEN Say(blocksFile, "NoBlocksFound", 0)
  ELSE statusLoop(arg)

\* --------------------------------------------------------------------- clean
\* Revision 1, handleClean.  Revision 2 has no clean command.
handleClean ==
  IF ~fileExists(blocksFile) THEN Say(blocksFile, "NothingToClean", 0)
  ELSE Say(NoFile, "BlocksFileDeleted", 0)

\* ------------------------------------------------------------ the invocations
\* The tracked children among the spawn calls l of a run that began when the
\* next PID was nx, and the PIDs the signals s asked to terminate.
trackedChildren(l, nx) ==
  {[block |-> l[j].block, pid |-> l[j].pid, run |-> nx] :
     j \in {k \in 1..Len(l) : l[k].pid # 0 /\ l[k].type # "exit"}}
terminated(s) == {s[j].pid : j \in {k \in 1..Len(s) : s[k].sig = "SIGTERM"}}

\* An invocation of the tool ran to its exit with result r; found is the
\* registry file as it found it.
Effects(cmd, arg, r, found) ==
  /\ last' = [cmd |-> cmd, arg |-> arg]
  /\ pre' = found
  /\ procs' = IF audit
              THEN {c \in procs : c.pid \notin terminated(r.signals)}
                     \cup trackedChildren(r.launched, nextPid)
              ELSE procs
  /\ cleanUsed' = (cleanUsed \/ (audit /\ cmd = "clean"))
  /\ blocksFile' = r.file
  /\ alive' = r.alive
  /\ nextPid' = r.next
  /\ out' = r.out
  /\ exitCode' = r.exit
  /\ launched' = r.launched
  /\ signals' = r.signals
  /\ UNCHANGED <<rev, Blocfile, audit>>

\* An invocation with no other under way.
Invoke(cmd, arg, r) ==
  /\ Effects(cmd, arg, r, blocksFile)
  /\ UNCHANGED <<inv, overlapped>>

\* blocr run <block|all>
Run ==
  \E arg \in Args :
    LET places == IF Blocfile.exists
                  THEN spawnPlaces(Blocfile.blocks, blockNames(Blocfile.blocks, arg))
                  ELSE {}
    IN /\ nextPid + Cardinality(places) <= MaxPid + 1
       /\ \E okSet \in SUBSET places :
            Invoke("run", arg, IF rev = 1 THEN handleRun(arg, okSet)
                               ELSE runCommand(arg, okSet))

\* The PIDs a kill of arg comes to signal.
targetPids(f, arg) ==
  UNION {{f.data[i].pids[j] : j \in 1..Len(f.data[i].pids)} :
           i \in {k \in 1..Len(f.data) : arg = ALL \/ f.data[k].name = arg}}

\* blocr kill <block|all>
Kill ==
  \E arg \in Args :
    \E deny \in SUBSET (alive \cap targetPids(blocksFile, arg)) :
      Invoke("kill", arg, IF rev = 1 THEN handleKill(arg, deny)
                          ELSE killCommand(arg, deny))

\* blocr list
List == Invoke("list", none, IF rev = 1 THEN handleList ELSE listCommand)

\* blocr status <block|all>
Status ==
  \E arg \in Args :
    Invoke("status", arg, IF rev = 1 THEN handleStatus(arg) ELSE statusCommand(arg))

\* blocr clean
Clean == rev = 1 /\ Invoke("clean", none, handleClean)

\* A process ends by itself or is ended from outside the tool.
ProcessExit ==
  \E pid \in alive :
    /\ alive' = alive \ {pid}
    /\ UNCHANGED <<rev, Blocfile, blocksFile, nextPid, last, pre, out,
                   exitCode, launched, signals, procs, cleanUsed, audit,
                   inv, overlapped>>

\* Two invocations may be under way at once.
Invocations == {1, 2}
Idle == [pc |-> "idle", arg |-> none, blocks |-> <<>>]

Init ==
  /\ rev \in {1, 2}
  /\ Blocfile \in {[exists |-> FALSE, blocks |-> <<>>]}
                  \cup {[exists |-> TRUE, blocks |-> d] : d \in Blocfiles}
  /\ blocksFile = NoFile
  /\ alive = {}
  /\ nextPid = 1
  /\ last = [cmd |-> "none", arg |-> none]
  /\ pre = NoFile
  /\ out = <<>>
  /\ exitCode = 0
  /\ launched = <<>>
  /\ signals = <<>>
  /\ procs = {}
  /\ cleanUsed = FALSE
  /\ audit = FALSE
  /\ inv = [p \in Invocations |-> Idle]
  /\ overlapped = FALSE

Next == Run \/ Kill \/ List \/ Status \/ Clean \/ ProcessExit

Spec == Init /\ [][Next]_vars

\* The same, with the record of the tracked children kept.
InitAudit ==
  /\ rev \in {1, 2}
  /\ Blocfile \in {[exists |-> TRUE, blocks |-> d] : d \in Blocfiles}
  /\ blocksFile = NoFile
  /\ alive = {}
  /\ nextPid = 1
  /\ last = [cmd |-> "none", arg |-> none]
  /\ pre = NoFile
  /\ out = <<>>
  /\ exitCode = 0
  /\ launched = <<>>
  /\ signals = <<>>
  /\ procs = {}
  /\ cleanUsed = FALSE
  /\ audit = TRUE
  /\ inv = [p \in Invocations |-> Idle]
  /\ overlapped = FALSE

\* The commands that launch, end or forget processes.
NextAudit == Run \/ Kill \/ Clean

SpecAudit == InitAudit /\ [][NextAudit]_vars

\* ------------------------------------------------- an unparsable registry
\* The registry file is damaged from outside the tool (an editor, a write cut
\* short): JSON.parse no longer accepts it.
Corrupt ==
  /\ canParse(blocksFile)
  /\ blocksFile' = [exists |-> TRUE, ok |-> FALSE, data |-> <<>>]
  /\ UNCHANGED <<rev, Blocfile, alive, nextPid, last, pre, out, exitCode,
                 launched, signals, procs, cleanUsed, audit, inv,
                 overlapped>>

NextCorrupt == Next \/ Corrupt

SpecCorrupt == Init /\ [][NextCorrupt]_vars

\* ------------------------------------------------- overlapping invocations
\* Nothing locks .blocks: a run reads it (cli.js:92-95) and writes it back
\* after its loop (cli.js:154), and another invocation may run in between.
otherUnderWay(p) == \E q \in Invocations \ {p} : inv[q].pc # "idle"

\* The first part of a run: the definition file is looked for, .blocks is
\* created when missing and read.  Without a definition file the run ends here.
RaceLoad(p) ==
  /\ inv[p].pc = "idle"
  /\ \E arg \in Args :
       IF ~Blocfile.exists
       THEN /\ Effects("run", arg, IF rev = 1 THEN handleRun(arg, {})
                                   ELSE runCommand(arg, {}), blocksFile)
            /\ UNCHANGED <<inv, overlapped>>
       ELSE /\ blocksFile' = ensureBlocksFile(blocksFile)
            /\ inv' = [inv EXCEPT ![p] =
                         [pc |-> "loaded", arg |-> arg,
                          blocks |-> readBlocks(ensureBlocksFile(blocksFile))]]
            /\ overlapped' = (overlapped \/ otherUnderWay(p))
            /\ UNCHANGED <<rev, Blocfile, alive, nextPid, last, pre, out,
                           exitCode, launched, signals, procs, cleanUsed,
                           audit>>

\* The second part of a run: the loop over the blocks, on the object read
\* earlier, and the write.
RaceSave(p) ==
  /\ inv[p].pc = "loaded"
  /\ LET places == spawnPlaces(Blocfile.blocks,
                               blockNames(Blocfile.blocks, inv[p].arg))
     IN /\ nextPid + Cardinality(places) <= MaxPid + 1
        /\ \E okSet \in SUBSET places :
             Effects("run", inv[p].arg,
                     runFrom(inv[p].blocks, blocksFile, inv[p].arg, okSet),
                     FileOf(inv[p].blocks))
  /\ inv' = [inv EXCEPT ![p] = Idle]
  /\ UNCHANGED overlapped

NextRace ==
  \/ \E p \in Invocations : RaceLoad(p)
  \/ \E p \in Invocations : RaceSave(p)

SpecRace == InitAudit /\ [][NextRace]_vars

\* ================================================================== claims
\* What the claims read off the last invocation.
Ran(cmd) == last.cmd = cmd
RanOn(cmd, n) == last.cmd = cmd /\ last.arg = n
ToSeqSet(q) == {q[j] : j \in 1..Len(q)}
Launches == ToSeqSet(launched)
\* the PIDs the launch log says were recorded for block n: the children of
\* tracked ('%' and '@') lines that got a pid, in launch order
isTrackedLaunch(e) == e.pid # 0 /\ e.type # "exit"
RECURSIVE PidsIn(_)
PidsIn(q) == IF Len(q) = 0 THEN <<>> ELSE <<Head(q).pid>> \o PidsIn(Tail(q))
TrackedPidsOf(n) ==
  PidsIn(SelectSeq(launched, LAMBDA e : e.block = n /\ isTrackedLaunch(e)))
NoBlocksRunning == <<Msg("NoBlocksRunning", none, <<>>)>>
Verdicts == {"Running", "PartiallyRunning", "NotRunning"}

\* C1: a run that finds a registry entry for a block launches nothing for that
\* block and leaves the entry as it was, whatever the liveness of its PIDs;
\* under run(all) a block registered by an earlier iteration of the same
\* invocation is not launched again by a later one.
C1_DuplicateRunGuard ==
  Ran("run") =>
    /\ \A n \in KeySet(pre.data) :
         /\ \A e \in Launches : e.block # n
         /\ Has(blocksFile.data, n)
         /\ Get(blocksFile.data, n) = Get(pre.data, n)
    /\ \A e1 \in Launches : \A e2 \in Launches :
         (e1.block = e2.block /\ e1.iter < e2.iter) => ~isTrackedLaunch(e1)

\* C1 witness: run of a registered block none of whose PIDs is alive.
C1_Witness ==
  /\ Ran("run") /\ last.arg \in KeySet(pre.data)
  /\ \A j \in 1..Len(Get(pre.data, last.arg)) :
       Get(pre.data, last.arg)[j] \notin alive
  /\ out[1].k = "AlreadyRunning"

\* C2: after kill(name) the name is no key of the registry, whatever the
\* terminations did.
C2_KillDeregisters ==
  (Ran("kill") /\ last.arg # ALL) => ~Has(blocksFile.data, last.arg)

\* C2 witness: kill of a registered block with one termination that threw and
\* one that went through.
C2_Witness ==
  /\ Ran("kill") /\ last.arg \in KeySet(pre.data)
  /\ \E s1 \in ToSeqSet(signals) : \E s2 \in ToSeqSet(signals) : s1.ok /\ ~s2.ok

\* C3: run(name) of an unregistered block that collects a PID: the entry is
\* the PIDs of the '%' and '@' children that got one, in source order; every
\* recognized line of the body is launched, a failed one included.
C3_RunRegistersTrackedPids ==
  (Ran("run") /\ last.arg # ALL /\ ~Has(pre.data, last.arg)
     /\ \E e \in Launches : isTrackedLaunch(e)) =>
    /\ Has(blocksFile.data, last.arg)
    /\ Get(blocksFile.data, last.arg) = TrackedPidsOf(last.arg)
    /\ \A e \in Launches : e.type = "exit" =>
         \A j \in 1..Len(Get(blocksFile.data, last.arg)) :
           Get(blocksFile.data, last.arg)[j] # e.pid
    /\ LET lines == linesOf(Blocfile.blocks[matchBlock(Blocfile.blocks, last.arg)].body)
       IN /\ Len(launched) = Len(lines)
          /\ \A j \in 1..Len(lines) : launched[j].cmd = lines[j].cmd

\* C3 witness: a one-off child with a pid, a tracked launch that failed, and a
\* later tracked launch that was recorded.
C3_Witness ==
  /\ Ran("run") /\ last.arg # ALL /\ ~Has(pre.data, last.arg)
  /\ \E e \in Launches : e.type = "exit" /\ e.pid # 0
  /\ \E j \in 1..Len(launched) : \E k \in 1..Len(launched) :
       /\ j < k /\ launched[j].type # "exit" /\ launched[j].pid = 0
       /\ isTrackedLaunch(launched[k])
       /\ Get(blocksFile.data, last.arg) = <<launched[k].pid>>

\* C4 (as claimed): the registry file exists exactly when a block is tracked,
\* never holds {} and never maps a key to the empty list.
C4_FileIffTracked ==
  /\ blocksFile.exists <=> Len(blocksFile.data) > 0
  /\ \A i \in 1..Len(blocksFile.data) : Len(blocksFile.data[i].pids) > 0

\* C5 (as claimed): after kill(all) the registry file does not exist, and a
\* list that follows reports that no blocks are running.
C5_KillAllThenList ==
  [][ /\ (last'.cmd = "kill" /\ last'.arg = ALL) => ~blocksFile'.exists
      /\ (last.cmd = "kill" /\ last.arg = ALL /\ last'.cmd = "list")
           => out' = NoBlocksRunning ]_vars

\* C6 (as claimed): a run(name) of an unregistered block that collects no
\* tracked PID leaves the registry file as it found it.
C6_ZeroPidRunChangesNothing ==
  (Ran("run") /\ last.arg # ALL /\ ~Has(pre.data, last.arg)
     /\ \A e \in Launches : ~isTrackedLaunch(e)) =>
    blocksFile = pre

\* The probes of the last invocation and the verdict lines it printed on n.
ProbeOk(pid) == \E s \in ToSeqSet(signals) : s.pid = pid /\ s.sig = "0" /\ s.ok
Probed(pid) == \E s \in ToSeqSet(signals) : s.pid = pid /\ s.sig = "0"
VerdictsOn(n) == {j \in 1..Len(out) : out[j].n = n /\ out[j].k \in Verdicts}

\* C7: status gives each registered block it is asked about exactly one of
\* the three verdicts, decided by the probes of its PIDs.
C7_StatusClassifies ==
  Ran("status") =>
    \A n \in KeySet(pre.data) : (last.arg = ALL \/ last.arg = n) =>
      LET pids == ToSeqSet(Get(pre.data, n))
      IN /\ Cardinality(VerdictsOn(n)) = 1
         /\ \A pid \in pids : Probed(pid)
         /\ \A j \in VerdictsOn(n) :
              /\ out[j].k = "Running" <=> \A pid \in pids : ProbeOk(pid)
              /\ out[j].k = "PartiallyRunning" <=>
                   /\ \E pid \in pids : ProbeOk(pid)
                   /\ \E pid \in pids : ~ProbeOk(pid)
              /\ out[j].k = "NotRunning" <=> \A pid \in pids : ~ProbeOk(pid)

\* C7 witness: a block of two PIDs, one alive, reported partially running.
C7_Witness ==
  /\ Ran("status")
  /\ \E j \in 1..Len(out) :
       /\ out[j].k = "PartiallyRunning"
       /\ Len(Get(pre.data, out[j].n)) = 2

\* C8 (as claimed): status(name) of a name that is no registry key reports
\* "not found", the registry file being absent included.
C8_MissingIsNotFound ==
  (Ran("status") /\ last.arg # ALL /\ ~Has(pre.data, last.arg)) =>
    out = <<Msg("NotFound", last.arg, <<>>)>>

\* C8 (amended): status(name) of a name that is no registry key reports "not
\* found" when the registry file exists and "no blocks running" when it does
\* not; it never gives the name a verdict.
C8_MissingIsNotFoundOrNoBlocks ==
  (Ran("status") /\ last.arg # ALL /\ ~Has(pre.data, last.arg)) =>
    /\ pre.exists => out = <<Msg("NotFound", last.arg, <<>>)>>
    /\ ~pre.exists => out = NoBlocksRunning
    /\ \A j \in 1..Len(out) : out[j].k \notin Verdicts
    /\ signals = <<>>

\* C8 witness: status of an unregistered name while another block is registered.
C8_Witness ==
  /\ Ran("status") /\ last.arg # ALL /\ ~Has(pre.data, last.arg)
  /\ Len(pre.data) > 0
  /\ out = <<Msg("NotFound", last.arg, <<>>)>>

\* C9 (as claimed): list shows every entry verbatim, and "no blocks running"
\* when the registry holds no block.
C9_ListReports ==
  Ran("list") =>
    IF Len(pre.data) = 0 THEN out = NoBlocksRunning
    ELSE /\ Len(out) = Len(pre.data) + 1
         /\ \A i \in 1..Len(pre.data) :
              out[i + 1] = Msg("Entry", pre.data[i].name, pre.data[i].pids)

\* C10 (as claimed): run without a definition file launches nothing and
\* neither creates nor changes the registry file.
C10_NoBlocfileNoWrite ==
  (Ran("run") /\ ~Blocfile.exists) => (launched = <<>> /\ blocksFile = pre)

\* C11 (as claimed): kill(name) of a name that is no key of the registry the
\* file holds reports "not found", signals no process and leaves the registry
\* file, its existence and its mapping, as it found it.
C11_KillMissingIsNoOp ==
  (Ran("kill") /\ last.arg # ALL /\ pre.exists /\ ~Has(pre.data, last.arg)) =>
    /\ out = <<Msg("NotFound", last.arg, <<>>)>>
    /\ signals = <<>>
    /\ blocksFile = pre

\* C12 (as claimed): the exit code is 1 exactly when run finds no definition
\* file or kill finds no registry file, and 0 otherwise.
C12_ExitCode ==
  exitCode = (IF \/ (Ran("run") /\ ~Blocfile.exists)
                 \/ (Ran("kill") /\ ~pre.exists)
              THEN 1 ELSE 0)

\* The tracked children on record for block n, and what the claim asks of them.
ProcsOf(n) == {c \in procs : c.block = n}
Consistent ==
  \A n \in Names :
    /\ \A c, d \in ProcsOf(n) : c.run = d.run
    /\ {c.pid : c \in ProcsOf(n)} = ToSeqSet(pidsOf(blocksFile.data, n))

\* C13 (as claimed): after any sequence of invocations, none overlapping
\* another, the tracked processes launched for a block and not since targeted
\* by a kill come from one run of it and are exactly the PIDs of its registry
\* entry.
C13_OneInstancePerBlock == Consistent

\* The PIDs of a registry, entry after entry, and those of a signal log.
RECURSIVE FlatPids(_)
FlatPids(b) == IF Len(b) = 0 THEN <<>> ELSE Head(b).pids \o FlatPids(Tail(b))
SignalPids == [j \in 1..Len(signals) |-> signals[j].pid]

\* C14: a kill sends one termination to every PID of every block it targets,
\* in list order (and key order under all), whether or not one throws.
C14_KillAttemptsEveryPid ==
  Ran("kill") =>
    /\ SignalPids = (IF last.arg = ALL THEN FlatPids(pre.data)
                     ELSE pidsOf(pre.data, last.arg))
    /\ \A s \in ToSeqSet(signals) : s.sig = "SIGTERM"

\* C14 witness: a kill(all) whose first termination threw and that went on to
\* the next PID of the block and to the next block.
C14_Witness ==
  /\ Ran("kill") /\ last.arg = ALL /\ Len(pre.data) >= 2
  /\ Len(pre.data[1].pids) >= 2
  /\ Len(signals) >= 3 /\ ~signals[1].ok /\ signals[3].ok

\* The headers of the definition file, in file order.
Headers == [i \in 1..Len(Blocfile.blocks) |-> Blocfile.blocks[i].name]
LaunchesOf(i) == SelectSeq(launched, LAMBDA e : e.iter = i)
BodyFor(n) == linesOf(Blocfile.blocks[matchBlock(Blocfile.blocks, n)].body)

\* C15: run(all) takes every header in turn: a header whose block is not
\* registered when its turn comes has every line of its body launched and,
\* with a PID collected, is registered with those PIDs, whatever happened to
\* the headers before it; the names reported as started are the keys the
\* invocation added.
C15_RunAllIndependent ==
  (Ran("run") /\ last.arg = ALL /\ Blocfile.exists) =>
    /\ \A i \in 1..Len(Headers) :
         \/ Has(pre.data, Headers[i])
         \/ \E e \in Launches :
              e.block = Headers[i] /\ e.iter < i /\ isTrackedLaunch(e)
         \/ /\ Len(LaunchesOf(i)) = Len(BodyFor(Headers[i]))
            /\ (\E e \in ToSeqSet(LaunchesOf(i)) : isTrackedLaunch(e)) =>
                 /\ Has(blocksFile.data, Headers[i])
                 /\ Get(blocksFile.data, Headers[i])
                      = PidsIn(SelectSeq(LaunchesOf(i), isTrackedLaunch))
    /\ LET rep == out[Len(out)]
       IN /\ rep.k \in {"Started", "NoBlocksStarted"}
          /\ ToSeqSet(rep.p) = KeySet(blocksFile.data) \ KeySet(pre.data)
          /\ Len(rep.p) = Cardinality(ToSeqSet(rep.p))

\* C15 witness: run(all) that found the first header already running, started
\* a later one and reported it.
C15_Witness ==
  /\ Ran("run") /\ last.arg = ALL
  /\ out[1].k = "AlreadyRunning" /\ out[1].n = Headers[1]
  /\ out[Len(out)].k = "Started" /\ Len(out[Len(out)].p) = 1
  /\ out[Len(out)].p[1] # Headers[1]

\* C16 (as claimed): a command that finds the registry file unparsable takes
\* the registry for empty and ends without crashing.
C16_UnparsableIsEmpty ==
  (last.cmd \in {"run", "kill", "status", "list"} /\ pre.exists /\ ~pre.ok) =>
    \A j \in 1..Len(out) : out[j].k # "Crash"

\* The first block whose header is n, 0 when there is none.
FirstNamed(n) ==
  IF \E i \in 1..Len(Headers) : Headers[i] = n
  THEN CHOOSE i \in 1..Len(Headers) :
         Headers[i] = n /\ \A k \in 1..(i - 1) : Headers[k] # n
  ELSE 0
Cmds(q) == [j \in 1..Len(q) |-> q[j].cmd]

\* C17 (as claimed): run(name) of an unregistered name launches the
\* recognized lines of the first block whose header is name, and reports "not
\* found" and launches nothing when no header is name.
C17_RunUsesBlockNamed ==
  (Ran("run") /\ last.arg # ALL /\ Blocfile.exists /\ pre.ok
     /\ ~Has(pre.data, last.arg)) =>
    IF FirstNamed(last.arg) = 0
    THEN launched = <<>> /\ out = <<Msg("NoBlockFound", last.arg, <<>>)>>
    ELSE Cmds(launched) = Cmds(linesOf(Blocfile.blocks[FirstNamed(last.arg)].body))

\* The names of the blocks a kill reported terminated, in output order.
Terminated == LET t == SelectSeq(out, LAMBDA x : x.k = "Terminated")
              IN [j \in 1..Len(t) |-> t[j].n]

\* C18: a run launches block after block in the order of the names it was
\* given (the headers in file order under all) and, within a block, the lines
\* in source order; a kill(all) takes the blocks in the key order of the
\* registry.
C18_ProcessingOrder ==
  /\ (Ran("run") /\ Blocfile.exists) =>
       /\ \A j \in 1..Len(launched) : \A k \in 1..Len(launched) :
            j < k => launched[j].iter <= launched[k].iter
       /\ \A e \in Launches :
            e.block = (IF last.arg = ALL THEN Headers[e.iter] ELSE last.arg)
       /\ \A e \in Launches :
            Cmds(LaunchesOf(e.iter)) = Cmds(BodyFor(e.block))
  /\ (Ran("kill") /\ last.arg = ALL) =>
       /\ Terminated = Keys(pre.data)
       /\ SignalPids = FlatPids(pre.data)

\* C18 witness: run(all) that launched a block of several lines and then the
\* next block.
C18_Witness ==
  /\ Ran("run") /\ last.arg = ALL
  /\ Len(LaunchesOf(1)) >= 2 /\ Len(LaunchesOf(2)) >= 1

\* A tracked child that is alive and that no entry of the registry file names.
Lost ==
  \E c \in procs :
    c.pid \in alive /\ c.pid \notin ToSeqSet(FlatPids(blocksFile.data))

\* C19: a tracked child is alive and missing from the registry file only
\* after two runs overlapped, the later write replacing the earlier one; such
\* a state is reachable (C19_Witness).
C19_LostOnlyByOverlap == Lost => overlapped

\* C19 witness: both runs have ended, and a child of one of them is alive and
\* missing from the registry file the other wrote.
C19_Witness ==
  /\ Ran("run") /\ overlapped /\ Lost
  /\ \A p \in Invocations : inv[p].pc = "idle"
  /\ \E c \in procs : c.pid \in ToSeqSet(FlatPids(blocksFile.data))

\* C20: status and list leave the registry file as they found it, launch
\* nothing and send no terminating signal; status sends the probe signal, and
\* only to PIDs the registry names; list sends none.
C20_StatusListReadOnly ==
  (Ran("status") \/ Ran("list")) =>
    /\ blocksFile = pre
    /\ launched = <<>>
    /\ exitCode = 0
    /\ \A s \in ToSeqSet(signals) :
         s.sig = "0" /\ s.pid \in ToSeqSet(FlatPids(pre.data))
    /\ Ran("list") => signals = <<>>

\* C20 witness: status(all) over a registry with a block found not running.
C20_Witness ==
  /\ Ran("status") /\ last.arg = ALL
  /\ \E j \in 1..Len(out) : out[j].k = "NotRunning"
  /\ Len(signals) >= 1

====
